---- MODULE Spec2Model ----
(***************************************************************************)
(* The rtlim token-bucket rate limiter (rtlim.c, rtlim.h) as a state       *)
(* machine.  One rtlim_t object, one caller.  The monotonic clock is the   *)
(* environment; rtlim_take is split at the top of its do-while loop, the   *)
(* only place where time can be observed to pass inside a call.  A second  *)
(* specification has two threads call rtlim_take on the one object, split  *)
(* at every read and write of its fields.                                  *)
(***************************************************************************)
EXTENDS Integers, Naturals, FiniteSets, Sequences, TLC

\* ------------------------------------------------------------------ bounds
MaxTime == 4      \* the clock runs over 0..MaxTime
MaxCalls == 2     \* rtlim_take is called at most this many times
MaxStep == 2      \* one clock advance is 1..MaxStep nanoseconds
MaxInterval == 2  \* refill_interval_ns is drawn from 0..MaxInterval
MaxRefill == 2    \* refill_token_amount is drawn from -1..MaxRefill
MaxTake == 3      \* take_token_amount is drawn from -1..MaxTake
MaxNeed == 4      \* the loop is not followed once the remaining need exceeds this
MaxEvents == 3    \* nor once the call has seen more refill events than this
MaxLoop == 5      \* the sending loop of the README is followed for this many calls
SelfTestEnd == 75 \* the clock of the self-test runs over 0..SelfTestEnd

\* ------------------------------------------------------- program constants
RTLIM_BLOCK_SPIN == 1
RTLIM_BLOCK_SLEEP == 2
RTLIM_NON_BLOCK == 3
INT_MAX == 2147483647
INT_MIN == (-INT_MAX) - 1

\* The clock value rtlim_create reads: the origin of the model's time.
CreationTime == 0

Modes == {RTLIM_BLOCK_SPIN, RTLIM_BLOCK_SLEEP, RTLIM_NON_BLOCK}
Intervals == 0..MaxInterval
RefillAmounts == (-1)..MaxRefill
TakeAmounts == (-1)..MaxTake

VARIABLES
  refill_interval_ns,   \* rtlim_t: unsigned long long
  last_refill_ns,       \* rtlim_t: unsigned long long
  refill_token_amount,  \* rtlim_t: unsigned long long, see IntToULL
  cur_ns,               \* rtlim_t: unsigned long long
  current_tokens,       \* rtlim_t: int
  take_token_amount,    \* rtlim_take: the parameter, rewritten by the loop
  block,                \* rtlim_take: the parameter
  delta_ns,             \* rtlim_take: the sleep computed at line 139
  rtn,                  \* the status the last finished call returned
  pc,                   \* "created", "loop", "sleep", "returned"
  clock,                \* CLOCK_MONOTONIC in nanoseconds
  h,                    \* history of the calls, read by properties only
  th                    \* the callers of the two-thread specification

vars == <<refill_interval_ns, last_refill_ns, refill_token_amount, cur_ns,
          current_tokens, take_token_amount, block, delta_ns, rtn, pc, clock, h,
          th>>

rtlim == <<refill_interval_ns, last_refill_ns, refill_token_amount, cur_ns,
           current_tokens>>

\* ------------------------------------------------------------- C integers
\* An unsigned long long that was converted from an int is kept as the pair
\* (ext, low): its value is ext * (2^64 - 2^31) + low with 0 <= low < 2^31.
\* ext = 1 is the image of a negative int (the upper 33 bits are ones).
IntToULL(x) ==
  IF x >= 0 THEN [ext |-> 0, low |-> x]
            ELSE [ext |-> 1, low |-> (x + INT_MAX) + 1]

\* The conversion back to int keeps the low 32 bits (two's complement).
ULLToInt(u) ==
  IF u.ext = 0 THEN u.low ELSE (u.low - INT_MAX) - 1

\* Does a - b leave the range of int?
SubOverflows(a, b) ==
  IF b < 0 THEN a > INT_MAX + b
  ELSE IF b > 0 THEN a < INT_MIN + b
  ELSE FALSE

\* The low 32 bits of a - b, for a difference that left the range of int.
WrapSub(a, b) ==
  IF b < 0 THEN ((a - INT_MAX) - 1) - ((b + INT_MAX) + 1)
           ELSE ((a + INT_MAX) + 1) - ((b - INT_MAX) - 1)

\* a > b on unsigned long long.
ULLGreater(a, b) ==
  \/ a.ext > b.ext
  \/ a.ext = b.ext /\ a.low > b.low

\* ------------------------------------------------------------ rtlim_take
current_time_ns == clock

\* Line 108: the comparison is made in unsigned long long.
ExceedsRefill(tta, blk) ==
  blk = RTLIM_NON_BLOCK /\ ULLGreater(IntToULL(tta), refill_token_amount)

\* Line 117: has an interval of time passed since the last refill?
RefillDueEarlyMut(last, now) == now + 1 >= last + refill_interval_ns
RefillDue(last, now) == now >= last + refill_interval_ns

\* Line 118: the refill assigns the unsigned long long amount to the int.
RefilledTokensMut == current_tokens + ULLToInt(refill_token_amount)
RefilledTokens == ULLToInt(refill_token_amount)

\* Line 123: does the rate limiter have enough tokens for the request?
EnoughTokens(tta, tokens) == tta <= tokens

\* Line 124: take tokens.
TakeTokensMut(tta, tokens) == tokens
TakeTokens(tta, tokens) == tokens - tta

\* Line 128: the failing return is for the non-blocking mode only.
FailsWhenShortMut(blk) == blk # RTLIM_BLOCK_SPIN
FailsNeverMut(blk) == FALSE
FailsWhenShort(blk) == blk = RTLIM_NON_BLOCK

\* Line 134: a blocking take keeps what is there and waits for more.
RemainingNeedMut(tta, tokens) == tta
RemainingNeed(tta, tokens) == tta - tokens

\* Line 134 on ints: the subtraction of a negative current_tokens can overflow,
\* which is undefined.  The builds of the source differ: the difference wraps
\* to its low 32 bits (gcc -O0), or the need is kept positive and the loop goes
\* on (gcc -O2).
NeedOutcomes(tta, tokens) ==
  IF SubOverflows(tta, tokens)
    THEN {WrapSub(tta, tokens), INT_MAX}
    ELSE {RemainingNeed(tta, tokens)}

\* Line 135.
DrainedTokensMut(tokens) == IF tokens > 0 THEN 1 ELSE 0
DrainedTokens(tokens) == 0

\* Lines 139-140.
SleepDeltaShortMut(last, now) == last - now
SleepDelta(last, now) == (last + refill_interval_ns) - now

\* Line 150.
LoopAgain(tta) == tta > 0

\* The sum of the history's counters, held at the ends of the int range.
Sum(a, b) ==
  IF b > 0 /\ a > INT_MAX - b THEN INT_MAX
  ELSE IF b < 0 /\ a < INT_MIN - b THEN INT_MIN
  ELSE a + b

\* Lines 113-152: what one pass of the do-while body computes for the
\* remaining need tta in the mode blk, from a bucket b holding b.tokens tokens
\* and last refilled at b.last, when its clock read returns now.
PassOutcome(b, tta, blk, now) ==
  LET due == RefillDue(b.last, now)
      tokens == IF due THEN RefilledTokens ELSE b.tokens
      last == IF due THEN now ELSE b.last
      enough == EnoughTokens(tta, tokens)
      fails == ~enough /\ FailsWhenShort(blk)
      tokens2 == IF enough THEN TakeTokens(tta, tokens)
                 ELSE IF fails THEN tokens ELSE DrainedTokens(tokens)
      needs == IF enough THEN {0}
               ELSE IF fails THEN {tta} ELSE NeedOutcomes(tta, tokens)
      sleeps == ~enough /\ ~fails /\ blk = RTLIM_BLOCK_SLEEP
  IN  [due |-> due, filled |-> tokens, last |-> last, fails |-> fails,
       tokens |-> tokens2, needs |-> needs, sleeps |-> sleeps,
       delta |-> IF sleeps THEN SleepDelta(last, now) ELSE 0]

\* Lines 113-152: one pass of the do-while body for the remaining need tta,
\* continuing the call whose history so far is c.
LoopBody(tta, blk, c) ==
  \E o \in {PassOutcome([tokens |-> current_tokens, last |-> last_refill_ns],
                        tta, blk, current_time_ns)} :
  LET delta == IF o.sleeps THEN o.delta ELSE delta_ns
      removed == o.filled - o.tokens
  IN  \E tta2 \in o.needs :
      /\ cur_ns' = current_time_ns
      /\ last_refill_ns' = o.last
      /\ current_tokens' = o.tokens
      /\ take_token_amount' = tta2
      /\ delta_ns' = delta
      /\ rtn' = IF o.fails THEN -1 ELSE IF LoopAgain(tta2) THEN rtn ELSE 0
      /\ pc' = IF o.fails THEN "returned"
               ELSE IF ~LoopAgain(tta2) THEN "returned"
               ELSE IF o.sleeps /\ delta > 0 THEN "sleep" ELSE "loop"
      /\ h' = [c EXCEPT !.refills = @ + (IF o.due THEN 1 ELSE 0),
                        !.due = o.due,
                        !.filled = o.filled,
                        !.taken = Sum(@, removed),
                        !.taken_total = Sum(@, removed)]
      /\ UNCHANGED <<refill_interval_ns, refill_token_amount, clock, th>>

\* The history record at the entry of a call.
Entry(a, m) ==
  [h EXCEPT !.calls = @ + 1,
            !.amount = a,
            !.start = clock,
            !.pre_tokens = current_tokens,
            !.pre_last = last_refill_ns,
            !.pre_cur = cur_ns,
            !.refills = 0,
            !.taken = 0,
            !.due = FALSE,
            !.negative = @ \/ a < 0]

\* Lines 106-110: the call rtlim_take(rtlim, a, m) up to its first clock read
\* and, as no time is observed in between, through its first pass of the loop.
Call(a, m) ==
  /\ pc \in {"created", "returned"}
  /\ IF ExceedsRefill(a, m)
       THEN /\ rtn' = -2
            /\ pc' = "returned"
            /\ take_token_amount' = a
            /\ block' = m
            /\ h' = Entry(a, m)
            /\ UNCHANGED <<rtlim, delta_ns, clock, th>>
       ELSE /\ block' = m
            /\ LoopBody(a, m, Entry(a, m))

\* rtlim_take(rtlim, a, m), called by a caller that makes MaxCalls calls.
Take(a, m) ==
  /\ h.calls < MaxCalls
  /\ Call(a, m)

\* Lines 113-150: a further pass of the loop of a blocking call.
Pass ==
  /\ pc = "loop"
  /\ LoopBody(take_token_amount, block, h)
  /\ UNCHANGED block

\* The passes that are followed: see MaxNeed and MaxEvents.
Iterate ==
  /\ take_token_amount <= MaxNeed
  /\ h.refills <= MaxEvents
  /\ Pass

\* Line 145: select() returns, after a time of the scheduler's choosing.
SelectReturn ==
  /\ pc = "sleep"
  /\ pc' = "loop"
  /\ UNCHANGED <<rtlim, take_token_amount, block, delta_ns, rtn, clock, h, th>>

\* The monotonic clock advances.
Tick ==
  /\ \E d \in 1..MaxStep :
       /\ clock + d <= MaxTime
       /\ clock' = clock + d
  /\ UNCHANGED <<rtlim, take_token_amount, block, delta_ns, rtn, pc, h, th>>

\* The threads that share the rtlim_t, before their calls; mutex tells whether
\* the application wraps each call of rtlim_take in a mutex lock.
Threads == {1, 2}

\* The single caller of the other specifications is not one of them.
NoThreads == <<>>

IdleThreads(mutex) ==
  [mutex |-> mutex, lock |-> 0, taken |-> 0,
   t |-> [i \in Threads |->
            [pc |-> "idle", need |-> 0, mode |-> RTLIM_NON_BLOCK, reg |-> 0,
             rtn |-> 0]]]

\* Lines 75-88: rtlim_create(i, r) at clock time t.
CreateEmptyMut(i, r, t) ==
  /\ refill_interval_ns = i
  /\ refill_token_amount = IntToULL(r)
  /\ current_tokens = 0
  /\ cur_ns = t
  /\ last_refill_ns = t
  /\ clock = t
Create(i, r, t) ==
  /\ refill_interval_ns = i
  /\ refill_token_amount = IntToULL(r)
  /\ current_tokens = r
  /\ cur_ns = t
  /\ last_refill_ns = t
  /\ clock = t

\* The state after rtlim_create(i, r) for some i of the set is and some r of
\* the set rs, with the threads in one of the states ts.
Created(is, rs, ts) ==
  /\ \E i \in is, r \in rs : Create(i, r, CreationTime)
  /\ th \in ts
  /\ take_token_amount = 0
  /\ block = RTLIM_NON_BLOCK
  /\ delta_ns = 0
  /\ rtn = 0
  /\ pc = "created"
  /\ h = [calls |-> 0, amount |-> 0, start |-> clock, created |-> clock,
          capacity |-> ULLToInt(refill_token_amount),
          pre_tokens |-> current_tokens, pre_last |-> last_refill_ns,
          pre_cur |-> cur_ns, refills |-> 0,
          due |-> FALSE, filled |-> current_tokens, taken |-> 0,
          taken_total |-> 0, negative |-> FALSE, twin |-> <<>>]

Init == Created(Intervals, RefillAmounts, {NoThreads})

Next ==
  \/ \E a \in TakeAmounts, m \in Modes : Take(a, m)
  \/ Iterate
  \/ SelectReturn
  \/ Tick

Spec == Init /\ [][Next]_vars

Capacity == h.capacity

\* The clock of a caller whose thread keeps running: a spinning call reads
\* every clock value before the next one comes, and select() oversleeps its
\* timeout by less than MaxStep.
TickLive ==
  /\ pc = "loop" => cur_ns = clock
  /\ \E d \in 1..MaxStep :
       /\ clock + d <= MaxTime
       /\ pc = "sleep" => clock + d < cur_ns + delta_ns + MaxStep
       /\ clock' = clock + d
  /\ UNCHANGED <<rtlim, take_token_amount, block, delta_ns, rtn, pc, h, th>>

\* rtlim_create with a positive interval and a positive refill amount.
InitLive ==
  /\ Init
  /\ refill_interval_ns > 0
  /\ Capacity > 0

NextLive ==
  \/ \E a \in TakeAmounts, m \in Modes : Take(a, m)
  \/ Iterate
  \/ SelectReturn
  \/ TickLive

\* The calling thread is scheduled (its loop passes, select() returns) and
\* the clock keeps advancing.
LiveSpec ==
  /\ InitLive
  /\ [][NextLive]_vars
  /\ WF_vars(Iterate)
  /\ WF_vars(SelectReturn)
  /\ WF_vars(TickLive)

\* rtlim_create with a refill amount that is not positive: zero, negative,
\* and the most negative int.
PathologicalAmounts == {INT_MIN, -1, 0}

InitPath == Created(Intervals, PathologicalAmounts, {NoThreads})

PathSpec == InitPath /\ [][Next]_vars

\* The tight loop of the README's example,
\*   while (1) { rtlim_take(rtlim, 1, RTLIM_BLOCK_SPIN); lbm_ssrc_send_ex(...); }
\* where the sends are short: the loop is back at rtlim_take before an
\* interval has passed since the last refill.
LoopTake ==
  /\ pc \in {"created", "returned"}
  /\ h.calls < MaxLoop
  /\ clock < last_refill_ns + refill_interval_ns
  /\ block' = RTLIM_BLOCK_SPIN
  /\ LoopBody(1, RTLIM_BLOCK_SPIN, Entry(1, RTLIM_BLOCK_SPIN))

NextPacing ==
  \/ LoopTake
  \/ Iterate
  \/ Tick

PacingSpec == InitLive /\ [][NextPacing]_vars

\* ------------------------------------------------------------- two threads
\* Two threads call rtlim_take on the same rtlim_t, once each, in the spinning
\* or in the non-blocking mode.  A thread's call is split at every read and
\* write of current_tokens and of last_refill_ns; th.t[i] holds its position
\* (the line it is about to run), its take_token_amount (need) and the value
\* it loaded for the read-modify-write of line 124 (reg).
ThreadModes == {RTLIM_BLOCK_SPIN, RTLIM_NON_BLOCK}
ThreadAmounts == 1..MaxRefill

At(i, l) == th.t[i].pc = l
Goto(i, l) == [th EXCEPT !.t[i].pc = l]
Return(i, r) == [th EXCEPT !.lock = 0, !.t[i].pc = "done", !.t[i].rtn = r]

\* README, Limitations: with the mutex, a thread enters rtlim_take only when
\* no other thread is inside.
MayEnterMut(i) == TRUE
MayEnter(i) == th.mutex => th.lock = 0

\* Lines 106-110.
ThreadCall(i, a, m) ==
  /\ At(i, "idle")
  /\ MayEnter(i)
  /\ th' = IF ExceedsRefill(a, m)
             THEN [th EXCEPT !.t[i].pc = "done", !.t[i].rtn = -2,
                             !.t[i].need = a, !.t[i].mode = m]
             ELSE [th EXCEPT !.lock = IF th.mutex THEN i ELSE 0,
                             !.t[i].pc = "l114", !.t[i].need = a,
                             !.t[i].mode = m]
  /\ UNCHANGED <<rtlim, take_token_amount, block, delta_ns, rtn, pc, clock, h>>

\* Line 114: write of cur_ns.
Thread114(i) ==
  /\ At(i, "l114")
  /\ cur_ns' = current_time_ns
  /\ th' = Goto(i, "l117")
  /\ UNCHANGED <<refill_interval_ns, last_refill_ns, refill_token_amount,
                 current_tokens, take_token_amount, block, delta_ns, rtn, pc,
                 clock, h>>

\* Line 117: read of cur_ns and last_refill_ns.
Thread117(i) ==
  /\ At(i, "l117")
  /\ th' = Goto(i, IF RefillDue(last_refill_ns, cur_ns) THEN "l118" ELSE "l123")
  /\ UNCHANGED <<rtlim, take_token_amount, block, delta_ns, rtn, pc, clock, h>>

\* Line 118: write of current_tokens.
Thread118(i) ==
  /\ At(i, "l118")
  /\ current_tokens' = RefilledTokens
  /\ th' = Goto(i, "l119")
  /\ UNCHANGED <<refill_interval_ns, last_refill_ns, refill_token_amount,
                 cur_ns, take_token_amount, block, delta_ns, rtn, pc, clock, h>>

\* Line 119: write of last_refill_ns.
Thread119(i) ==
  /\ At(i, "l119")
  /\ last_refill_ns' = cur_ns
  /\ th' = Goto(i, "l123")
  /\ UNCHANGED <<refill_interval_ns, refill_token_amount, cur_ns,
                 current_tokens, take_token_amount, block, delta_ns, rtn, pc,
                 clock, h>>

\* Lines 123 and 128-131: read of current_tokens.
Thread123(i) ==
  /\ At(i, "l123")
  /\ th' = IF EnoughTokens(th.t[i].need, current_tokens) THEN Goto(i, "l124")
           ELSE IF FailsWhenShort(th.t[i].mode) THEN Return(i, -1)
           ELSE Goto(i, "l134")
  /\ UNCHANGED <<rtlim, take_token_amount, block, delta_ns, rtn, pc, clock, h>>

\* Line 124, first half: the load of current_tokens.
Thread124Load(i) ==
  /\ At(i, "l124")
  /\ th' = [th EXCEPT !.t[i].pc = "l124s", !.t[i].reg = current_tokens]
  /\ UNCHANGED <<rtlim, take_token_amount, block, delta_ns, rtn, pc, clock, h>>

\* Line 124, second half: the store to current_tokens; lines 125, 150, 152.
Thread124Store(i) ==
  /\ At(i, "l124s")
  /\ current_tokens' = TakeTokens(th.t[i].need, th.t[i].reg)
  /\ th' = [Return(i, 0) EXCEPT !.taken = @ + th.t[i].need, !.t[i].need = 0]
  /\ UNCHANGED <<refill_interval_ns, last_refill_ns, refill_token_amount,
                 cur_ns, take_token_amount, block, delta_ns, rtn, pc, clock, h>>

\* Line 134: read of current_tokens.
Thread134(i) ==
  /\ At(i, "l134")
  /\ th' = [th EXCEPT !.t[i].pc = "l135",
                      !.t[i].need = RemainingNeed(@, current_tokens),
                      !.taken = @ + current_tokens]
  /\ UNCHANGED <<rtlim, take_token_amount, block, delta_ns, rtn, pc, clock, h>>

\* Line 135: write of current_tokens; line 150.
Thread135(i) ==
  /\ At(i, "l135")
  /\ current_tokens' = DrainedTokens(current_tokens)
  /\ th' = IF LoopAgain(th.t[i].need) THEN Goto(i, "l114") ELSE Return(i, 0)
  /\ UNCHANGED <<refill_interval_ns, last_refill_ns, refill_token_amount,
                 cur_ns, take_token_amount, block, delta_ns, rtn, pc, clock, h>>

InitThreads ==
  Created(1..MaxInterval, 1..MaxRefill, {IdleThreads(m) : m \in BOOLEAN})

NextThreads ==
  \/ \E i \in Threads, a \in ThreadAmounts, m \in ThreadModes : ThreadCall(i, a, m)
  \/ \E i \in Threads : Thread114(i)
  \/ \E i \in Threads : Thread117(i)
  \/ \E i \in Threads : Thread118(i)
  \/ \E i \in Threads : Thread119(i)
  \/ \E i \in Threads : Thread123(i)
  \/ \E i \in Threads : Thread124Load(i)
  \/ \E i \in Threads : Thread124Store(i)
  \/ \E i \in Threads : Thread134(i)
  \/ \E i \in Threads : Thread135(i)
  \/ Tick

ThreadSpec == InitThreads /\ [][NextThreads]_vars

\* ------------------------------------------------------- the modes compared
\* A call of rtlim_take is followed together with its twin: the call of the
\* same amount in another mode k, a blocking one, made on the same bucket
\* state and reading the same clock values.  The twin's bucket fields, its
\* take_token_amount (need) and its status are kept in the history.
OtherBlocking(m) == {RTLIM_BLOCK_SPIN, RTLIM_BLOCK_SLEEP} \ {m}

TwinStart(a, k) ==
  [mode |-> k, tokens |-> current_tokens, last |-> last_refill_ns,
   cur |-> cur_ns, need |-> a, returned |-> FALSE, rtn |-> rtn]

\* Lines 113-152 for the twin: one pass of its loop at the clock value now,
\* if it has not returned.
TwinPasses(w, now) ==
  IF w.returned THEN {w}
  ELSE UNION {
         {[mode |-> w.mode, tokens |-> o.tokens, last |-> o.last,
           cur |-> now, need |-> n,
           returned |-> o.fails \/ ~LoopAgain(n),
           rtn |-> IF o.fails THEN -1 ELSE IF LoopAgain(n) THEN w.rtn ELSE 0]
          : n \in o.needs}
         : o \in {PassOutcome([tokens |-> w.tokens, last |-> w.last],
                               w.need, w.mode, now)}}

\* rtlim_take(rtlim, a, m) past the check of line 108, and the first pass of
\* its twin.
ModeTake(a, m) ==
  /\ h.calls < MaxCalls
  /\ pc \in {"created", "returned"}
  /\ ~ExceedsRefill(a, m)
  /\ block' = m
  /\ \E k \in OtherBlocking(m) :
       \E w \in TwinPasses(TwinStart(a, k), current_time_ns) :
         LoopBody(a, m, [Entry(a, m) EXCEPT !.twin = w])

\* A further pass of the call and of its twin.
ModePass ==
  /\ pc = "loop"
  /\ take_token_amount <= MaxNeed
  /\ h.refills <= MaxEvents
  /\ \E w \in TwinPasses(h.twin, current_time_ns) :
       LoopBody(take_token_amount, block, [h EXCEPT !.twin = w])
  /\ UNCHANGED block

NextMode ==
  \/ \E a \in TakeAmounts, m \in Modes : ModeTake(a, m)
  \/ ModePass
  \/ SelectReturn
  \/ Tick

ModeSpec == Init /\ [][NextMode]_vars

\* ---------------------------------------------------------------- self-test
\* main() of the self-test, lines 186-257, with its clock counted in units of
\* 100 ms: rtlim_create(500000000, 100), then the calls of rtlim_take in their
\* order, each with the usleep() that main makes before it.
SelfTestInterval == 5
SelfTestTokens == 100

SelfTestCalls ==
  << [amount |-> 200, mode |-> RTLIM_NON_BLOCK,   pause |-> 0],   \* line 196
     [amount |-> 200, mode |-> RTLIM_BLOCK_SPIN,  pause |-> 0],   \* line 202
     [amount |-> 100, mode |-> RTLIM_NON_BLOCK,   pause |-> 4],   \* lines 208-210
     [amount |-> 100, mode |-> RTLIM_NON_BLOCK,   pause |-> 2],   \* lines 216-218
     [amount |-> 80,  mode |-> RTLIM_BLOCK_SPIN,  pause |-> 6],   \* lines 224-226
     [amount |-> 80,  mode |-> RTLIM_BLOCK_SPIN,  pause |-> 0],   \* line 232
     [amount |-> 400, mode |-> RTLIM_BLOCK_SPIN,  pause |-> 0],   \* line 239
     [amount |-> 400, mode |-> RTLIM_BLOCK_SLEEP, pause |-> 0] >> \* line 247

\* The clock value at which the usleep() before the next call of main ends.
Resume ==
  IF h.calls < Len(SelfTestCalls)
    THEN cur_ns + SelfTestCalls[h.calls + 1].pause
    ELSE cur_ns

\* main makes its next call of rtlim_take once its usleep() is over.
SelfTestTake ==
  /\ h.calls < Len(SelfTestCalls)
  /\ clock >= Resume
  /\ Call(SelfTestCalls[h.calls + 1].amount, SelfTestCalls[h.calls + 1].mode)

\* The clock of the self-test on a machine that runs it without delay: the
\* spinning loop reads every clock value, select() and usleep() oversleep by
\* less than MaxStep, and main loses no time between its statements.
SelfTestTick ==
  /\ pc = "loop" => cur_ns = clock
  /\ pc \in {"created", "returned"} => clock < Resume
  /\ \E d \in 1..MaxStep :
       /\ clock + d <= SelfTestEnd
       /\ pc = "sleep" => clock + d < cur_ns + delta_ns + MaxStep
       /\ clock' = clock + d
  /\ UNCHANGED <<rtlim, take_token_amount, block, delta_ns, rtn, pc, h, th>>

InitSelfTest == Created({SelfTestInterval}, {SelfTestTokens}, {NoThreads})

NextSelfTest ==
  \/ SelfTestTake
  \/ Pass
  \/ SelectReturn
  \/ SelfTestTick

SelfTestSpec == InitSelfTest /\ [][NextSelfTest]_vars

\* ------------------------------------------------------------- properties
Returned == pc = "returned"
InCall == pc \in {"loop", "sleep"}
Blocking == block \in {RTLIM_BLOCK_SPIN, RTLIM_BLOCK_SLEEP}
\* The last call began at or after the refill boundary then in force.
BoundaryPassedAtStart == h.start >= h.pre_last + refill_interval_ns

\* C1: capacity invariant.  Whenever no call is in progress (after
\* rtlim_create and after every return of rtlim_take),
\* 0 <= current_tokens <= refill_token_amount; stated here for the buckets
\* created with a positive refill_interval_ns and refill_token_amount.
C1_CapacityInvariant ==
  (refill_interval_ns > 0 /\ Capacity > 0 /\ ~InCall)
    => (0 <= current_tokens /\ current_tokens <= Capacity)

\* C2: rate bound.  With I > 0, R > 0 and only non-negative amounts requested,
\* the tokens removed by all takes up to clock time t are at most
\* R * (1 + floor((t - t0) / I)).
C2_RateBound ==
  (refill_interval_ns > 0 /\ Capacity > 0 /\ ~h.negative)
    => h.taken_total <= Capacity * (1 + ((clock - h.created) \div refill_interval_ns))

\* C2 witness: more than the initial fill has been removed, over more than one
\* call, and the bound is met with equality.
C2_Witness ==
  /\ refill_interval_ns > 0 /\ Capacity > 0 /\ ~h.negative
  /\ h.calls >= 2
  /\ h.taken_total > Capacity
  /\ h.taken_total = Capacity * (1 + ((clock - h.created) \div refill_interval_ns))

\* C3: a non-blocking take of more than refill_token_amount returns -2 without
\* reading the clock and without changing current_tokens or last_refill_ns
\* (stated for refill_interval_ns > 0).
C3_OverCapacity ==
  (Returned /\ block = RTLIM_NON_BLOCK /\ h.amount > Capacity
     /\ refill_interval_ns > 0)
    => /\ rtn = -2
       /\ cur_ns = h.pre_cur
       /\ current_tokens = h.pre_tokens
       /\ last_refill_ns = h.pre_last

\* C4: a non-blocking take with current_tokens < amount <= refill_token_amount,
\* called before the refill boundary, returns -1 and leaves current_tokens and
\* last_refill_ns unchanged.
C4_Insufficient ==
  (Returned /\ block = RTLIM_NON_BLOCK
     /\ h.pre_tokens < h.amount /\ h.amount <= Capacity
     /\ ~BoundaryPassedAtStart)
    => /\ rtn = -1
       /\ current_tokens = h.pre_tokens
       /\ last_refill_ns = h.pre_last

\* C4 witness: such a call has returned, made when the clock had advanced
\* since the last refill but not yet to the boundary.
C4_Witness ==
  /\ Returned /\ block = RTLIM_NON_BLOCK
  /\ h.pre_tokens < h.amount /\ h.amount <= Capacity
  /\ ~BoundaryPassedAtStart
  /\ h.start > h.pre_last
  /\ rtn = -1

\* C5: every non-blocking take that returns -1 or -2 leaves current_tokens and
\* last_refill_ns as they were before the call (stated for
\* refill_interval_ns > 0 and calls not preceded by a negative amount).
C5_FailureFrame ==
  (Returned /\ block = RTLIM_NON_BLOCK /\ rtn \in {-1, -2}
     /\ refill_interval_ns > 0 /\ ~h.negative)
    => /\ current_tokens = h.pre_tokens
       /\ last_refill_ns = h.pre_last

\* C6: exact accounting.  A call that returned 0 removed exactly the requested
\* amount from the bucket, and while the call has not returned the amount
\* removed so far plus the positive remaining need is the requested amount.
C6_ExactAccounting ==
  /\ (Returned /\ rtn = 0) => h.taken = h.amount
  /\ InCall => (take_token_amount > 0 /\ h.taken + take_token_amount = h.amount)

\* C6 witness: a successful call that consumed in several parts across refills.
C6_Witness ==
  /\ Returned /\ rtn = 0 /\ Blocking
  /\ h.refills >= 2
  /\ h.pre_tokens > 0 /\ h.amount > h.pre_tokens + Capacity
  /\ h.taken = h.amount

\* C9: blocking takes never fail.  The status is 0, -1 or -2, and it is 0
\* whenever the mode is RTLIM_BLOCK_SPIN or RTLIM_BLOCK_SLEEP.
C9_BlockingNeverFails ==
  Returned => /\ rtn \in {0, -1, -2}
              /\ Blocking => rtn = 0
              /\ rtn # 0 => block = RTLIM_NON_BLOCK

\* C9 witness: a blocking take that found too few tokens, waited for a refill
\* and returned 0.
C9_Witness ==
  /\ Returned /\ Blocking /\ rtn = 0
  /\ ~BoundaryPassedAtStart
  /\ h.pre_tokens < h.amount
  /\ h.refills >= 1

\* The last call was a blocking take of Capacity * k tokens, k >= 1, from a
\* full bucket of positive capacity, and it has returned.
FullMultipleTaken ==
  /\ Returned /\ Blocking
  /\ Capacity > 0
  /\ h.pre_tokens = Capacity
  /\ h.amount > 0 /\ h.amount % Capacity = 0
Multiple == h.amount \div Capacity

LoopPass ==
  \/ Iterate
  \/ /\ h'.amount \in TakeAmounts /\ block' \in Modes
     /\ ~ExceedsRefill(h'.amount, block')
     /\ Take(h'.amount, block')

\* C8: refill at the boundary.  A pass that reads a clock value at or after
\* last_refill_ns + refill_interval_ns sets current_tokens to
\* refill_token_amount and last_refill_ns to that clock value before it looks
\* at the request, whatever current_tokens was and however long ago the
\* boundary passed; a non-blocking take of 0 <= a <= refill_token_amount made
\* then returns 0 and leaves refill_token_amount - a tokens.
C8_RefillAtBoundary ==
  [][ (LoopPass /\ clock >= last_refill_ns + refill_interval_ns)
        => /\ h'.filled = Capacity
           /\ last_refill_ns' = clock
           /\ cur_ns' = clock
           /\ (pc # "loop" /\ block' = RTLIM_NON_BLOCK
                 /\ 0 <= h'.amount /\ h'.amount <= Capacity)
                => /\ pc' = "returned" /\ rtn' = 0
                   /\ current_tokens' = Capacity - h'.amount ]_vars

\* C8 witness: a non-blocking take made more than two intervals after the
\* last refill, for more than the bucket then held, has returned 0.
C8_Witness ==
  /\ Returned /\ block = RTLIM_NON_BLOCK /\ rtn = 0
  /\ refill_interval_ns > 0
  /\ h.start > h.pre_last + 2 * refill_interval_ns
  /\ h.pre_tokens < h.amount
  /\ h.due /\ h.filled = Capacity
  /\ current_tokens = Capacity - h.amount
  /\ last_refill_ns = h.start

\* Ceiling of a / b for b > 0.
CeilDiv(a, b) == (a + b - 1) \div b

\* The refill events a blocking call of a positive capacity has to see: the
\* one of its first pass if the boundary had passed, and then one for every
\* refill_token_amount tokens, or part of it, that the bucket did not hold.
RefillsRequired ==
  LET held == IF BoundaryPassedAtStart THEN Capacity ELSE h.pre_tokens
  IN  (IF BoundaryPassedAtStart THEN 1 ELSE 0)
        + (IF h.amount > held THEN CeilDiv(h.amount - held, Capacity) ELSE 0)

\* The clock can still reach the refills that the remaining need asks for.
WithinHorizon ==
  last_refill_ns
    + CeilDiv(take_token_amount, Capacity) * (refill_interval_ns + MaxStep - 1)
    <= MaxTime

\* C10: termination of blocking takes.  With refill_interval_ns > 0 and
\* refill_token_amount > 0, under a clock that keeps advancing, a blocking
\* take that is waiting eventually returns 0, and it has then seen exactly
\* the refill events its amount required.
C10_BlockingTerminates ==
  /\ (InCall /\ refill_interval_ns > 0 /\ Capacity > 0 /\ WithinHorizon)
       ~> (Returned /\ rtn = 0)
  /\ [](Returned /\ Blocking /\ refill_interval_ns > 0 /\ Capacity > 0
          => h.refills = RefillsRequired)

\* C10 witness: a blocking take that had to wait for two refills, within reach
\* of the clock when it began to wait, has returned 0.
C10_Witness ==
  /\ Returned /\ Blocking /\ rtn = 0
  /\ refill_interval_ns > 0 /\ Capacity > 0
  /\ ~BoundaryPassedAtStart
  /\ h.refills = 2
  /\ h.pre_last + 2 * (refill_interval_ns + MaxStep - 1) <= MaxTime

\* C11: rtlim_create leaves a full bucket (current_tokens is the refill
\* amount, last_refill_ns the clock reading of the creation), and the first
\* take after it of 0 <= amount <= refill_token_amount returns 0 in every
\* mode from its first pass, at the clock time of the call, leaving
\* refill_token_amount - amount tokens.
C11_InitialBucket ==
  /\ pc = "created"
       => /\ current_tokens = ULLToInt(refill_token_amount)
          /\ last_refill_ns = h.created
          /\ cur_ns = h.created
  /\ (h.calls = 1 /\ 0 <= h.amount /\ h.amount <= Capacity)
       => /\ Returned /\ rtn = 0
          /\ cur_ns = h.start
          /\ current_tokens = Capacity - h.amount

\* C11 witness: the first take, of the whole bucket and made in a blocking
\* mode some time after the creation but before the first boundary, has
\* returned 0 without a refill.
C11_Witness ==
  /\ h.calls = 1 /\ Returned /\ Blocking /\ rtn = 0
  /\ h.amount = Capacity /\ Capacity > 0
  /\ h.start > h.created /\ ~BoundaryPassedAtStart
  /\ h.refills = 0
  /\ current_tokens = 0

\* C14: refill count and leftover.  A blocking take of more than the
\* current_tokens c it finds, begun before the refill boundary on a bucket of
\* positive refill_token_amount R, sees exactly n = ceil((amount - c) / R)
\* refill events and returns 0 leaving c + n * R - amount tokens.
C14_RefillCountAndLeftover ==
  (Returned /\ Blocking /\ Capacity > 0
     /\ h.amount > h.pre_tokens /\ ~BoundaryPassedAtStart)
    => /\ rtn = 0
       /\ h.refills = CeilDiv(h.amount - h.pre_tokens, Capacity)
       /\ current_tokens = h.pre_tokens + h.refills * Capacity - h.amount

\* C14 witness: a later call found a part of its amount in the bucket and
\* has returned after the two refills the rest required.
C14_Witness ==
  /\ Returned /\ Blocking /\ rtn = 0 /\ Capacity > 0
  /\ h.calls = 2
  /\ ~BoundaryPassedAtStart
  /\ 0 < h.pre_tokens /\ h.pre_tokens < h.amount
  /\ h.refills = 2
  /\ current_tokens = h.pre_tokens + 2 * Capacity - h.amount

\* C16: -2 is for over-capacity requests only.  A non-blocking take of any
\* int amount <= refill_token_amount, zero and negative amounts included,
\* returns 0 or -1, never -2 (stated for the buckets created with a positive
\* refill_interval_ns and refill_token_amount).
C16_ExceedsOnlyOverCapacity ==
  (Returned /\ block = RTLIM_NON_BLOCK /\ h.amount <= Capacity
     /\ refill_interval_ns > 0 /\ Capacity > 0)
    => rtn \in {0, -1}

RefillEvent == LoopPass /\ h'.due

\* C20: refill spacing.  Under the non-decreasing clock, last_refill_ns never
\* decreases, last_refill_ns <= cur_ns holds after every clock read, and a
\* refill event comes at least refill_interval_ns after the one before it
\* (after the creation, for the first).
C20_RefillSpacing ==
  [][ /\ last_refill_ns <= cur_ns /\ cur_ns <= clock
      /\ last_refill_ns' <= cur_ns' /\ cur_ns' <= clock'
      /\ last_refill_ns' >= last_refill_ns
      /\ RefillEvent
           => /\ last_refill_ns' = clock
              /\ last_refill_ns' >= last_refill_ns + refill_interval_ns
      /\ ~RefillEvent => last_refill_ns' = last_refill_ns ]_vars

\* C20 witness: one call has seen two refill events of an interval longer
\* than a clock step, the second at least two intervals after the refill
\* that preceded the call.
C20_Witness ==
  /\ refill_interval_ns > 1
  /\ h.refills = 2
  /\ h.due
  /\ last_refill_ns = cur_ns
  /\ last_refill_ns >= h.pre_last + 2 * refill_interval_ns

\* C18: pathological capacity.  On a bucket created with
\* refill_token_amount <= 0, no blocking take of a positive amount ever
\* returns (stated for callers that never passed a negative amount).
C18_NeverReturns ==
  (Blocking /\ Capacity <= 0 /\ h.calls >= 1 /\ h.amount > 0 /\ ~h.negative)
    => ~Returned

\* C19: degenerate zero interval.  With refill_interval_ns == 0 and
\* refill_token_amount R > 0 every pass of the loop refills to R; so every
\* non-blocking take of an amount <= R returns 0, and a blocking take of any
\* amount A > 0 returns 0 after at most ceil(A / R) + 1 passes, never
\* sleeping (delta_ns is 0).
C19_ZeroInterval ==
  (refill_interval_ns = 0 /\ Capacity > 0 /\ h.calls >= 1)
    => /\ (Returned /\ rtn = -2) \/ (h.due /\ h.filled = Capacity)
       /\ (Returned /\ block = RTLIM_NON_BLOCK /\ h.amount <= Capacity)
            => rtn = 0
       /\ (Blocking /\ h.amount > 0)
            => /\ h.refills <= CeilDiv(h.amount, Capacity) + 1
               /\ pc # "sleep"
               /\ block = RTLIM_BLOCK_SLEEP /\ InCall => delta_ns = 0
               /\ Returned => rtn = 0

\* In the tight loop, the call now made or last made is one after a whole
\* number n >= 1 of batches of refill_token_amount calls.
StartsBatch == h.calls > 1 /\ (h.calls - 1) % Capacity = 0

\* C13: tight-loop pacing.  From a fresh bucket, in a loop of
\* rtlim_take(rtlim, 1, RTLIM_BLOCK_SPIN) whose batches of R calls take less
\* than one interval, exactly the calls numbered n * R + 1 (n >= 1) wait for a
\* refill, for one refill, and do not return before the boundary; all other
\* calls return at once; call R + 1 does not return before creation + I.
C13_TightLoopPacing ==
  /\ InCall => StartsBatch
  /\ (Returned /\ ~StartsBatch)
       => /\ rtn = 0
          /\ h.refills = 0
          /\ cur_ns = h.start
  /\ (Returned /\ StartsBatch)
       => /\ rtn = 0
          /\ h.refills = 1
          /\ h.pre_tokens = 0
          /\ cur_ns > h.start
          /\ cur_ns >= h.pre_last + refill_interval_ns
          /\ h.calls = Capacity + 1 => cur_ns >= h.created + refill_interval_ns

\* C13 witness: with two tokens per refill the fifth call has waited for the
\* second refill, after the fourth returned at once.
C13_Witness ==
  /\ Returned /\ rtn = 0
  /\ Capacity = 2
  /\ h.calls = 5
  /\ h.refills = 1
  /\ cur_ns >= h.created + 2 * refill_interval_ns
  /\ current_tokens = 1

\* C15: the final step of the self-test.  On the bucket of interval 0.5 s and
\* 100 tokens per refill, holding 40 tokens immediately after a refill,
\* rtlim_take(rl, 400, RTLIM_BLOCK_SLEEP) returns 0 after about 1 second, that
\* is two refill intervals, and leaves current_tokens == 40.
C15_SelfTestFinalStep ==
  (Returned /\ h.calls = Len(SelfTestCalls)
     /\ h.pre_tokens = 40 /\ h.start = h.pre_last)
    => /\ rtn = 0
       /\ current_tokens = 40
       /\ h.refills = 2
       /\ cur_ns - h.start < 3 * refill_interval_ns

\* What a single caller is guaranteed on a bucket of positive interval and
\* capacity (C1, C2): current_tokens stays within 0..refill_token_amount, and
\* the tokens handed out up to now are at most those of the initial fill and
\* of one refill per interval elapsed.
SingleCallerGuarantees ==
  /\ 0 <= current_tokens /\ current_tokens <= Capacity
  /\ th.taken <= Capacity * (1 + ((clock - h.created) \div refill_interval_ns))

\* C12: rtlim_take is not thread-safe.  Two callers on one bucket, interleaved
\* at the reads and writes of current_tokens and last_refill_ns, can reach a
\* state that breaks the single-caller guarantees (current_tokens < 0, or
\* tokens available once handed to both: the witness); with every call made
\* under a mutex no such state is reachable.
C12_MutexKeepsGuarantees ==
  th.mutex => SingleCallerGuarantees

\* C12 witness: without the mutex both callers have returned 0, each with
\* the tokens the bucket held once, and have left current_tokens negative.
C12_Witness ==
  /\ ~th.mutex
  /\ \A i \in Threads : At(i, "done") /\ th.t[i].rtn = 0
  /\ th.taken > Capacity * (1 + ((clock - h.created) \div refill_interval_ns))
  /\ current_tokens < 0

\* C21: the sleep duration is well defined.  Whenever a RTLIM_BLOCK_SLEEP call
\* has computed delta_ns = (last_refill_ns + refill_interval_ns) - cur_ns, the
\* difference is not negative (the unsigned subtraction does not underflow),
\* and with refill_interval_ns > 0 it is 0 < delta_ns <= refill_interval_ns:
\* the call never asks to sleep longer than one refill interval.
C21_SleepDuration ==
  (block = RTLIM_BLOCK_SLEEP /\ InCall)
    => /\ delta_ns = (last_refill_ns + refill_interval_ns) - cur_ns
       /\ delta_ns >= 0
       /\ refill_interval_ns > 0
            => /\ 0 < delta_ns
               /\ delta_ns <= refill_interval_ns

\* C21 witness: a sleeping call whose last pass came some time after the
\* last refill is in select() for the rest of the interval, less than a whole
\* one.
C21_Witness ==
  /\ block = RTLIM_BLOCK_SLEEP /\ pc = "sleep"
  /\ refill_interval_ns > 1
  /\ cur_ns > last_refill_ns
  /\ delta_ns = (last_refill_ns + refill_interval_ns) - cur_ns
  /\ 0 < delta_ns /\ delta_ns < refill_interval_ns

\* The twin of the last call is where the call is: same bucket fields, same
\* clock reading, same remaining need, returned or not alike.
TwinAgrees ==
  /\ h.twin.tokens = current_tokens
  /\ h.twin.last = last_refill_ns
  /\ h.twin.cur = cur_ns
  /\ h.twin.need = take_token_amount
  /\ h.twin.returned = Returned

\* C22: mode equivalence.  From the same bucket state, with the same amount
\* and the same clock readings, a RTLIM_BLOCK_SPIN take and a
\* RTLIM_BLOCK_SLEEP take go through the same states and return the same
\* status with the same (current_tokens, last_refill_ns); and whenever a
\* RTLIM_NON_BLOCK take returns 0, a blocking take from the same state and
\* clock reading has returned 0 with the same final state after its one pass.
C22_ModeEquivalence ==
  h.calls >= 1
    => /\ Blocking
            => /\ h.twin.mode \in OtherBlocking(block)
               /\ TwinAgrees
               /\ Returned => h.twin.rtn = rtn
       /\ (block = RTLIM_NON_BLOCK /\ rtn = 0)
            => /\ h.twin.mode \in OtherBlocking(block)
               /\ TwinAgrees
               /\ h.twin.rtn = 0

\* A RTLIM_BLOCK_SLEEP take that found the bucket short, slept, refilled and
\* returned 0, its RTLIM_BLOCK_SPIN twin having done the same.
C22_Witness ==
  /\ h.calls >= 1 /\ Returned
  /\ block = RTLIM_BLOCK_SLEEP /\ h.twin.mode = RTLIM_BLOCK_SPIN
  /\ h.amount > h.pre_tokens /\ h.refills >= 1
  /\ delta_ns > 0
  /\ rtn = 0 /\ h.twin.rtn = 0
  /\ TwinAgrees

====
